---- MODULE Spec2Model ----
(***************************************************************************)
(* Model of the cemetery-plot backend (src/server.js): the bearer-token    *)
(* gate, the five mutating routes (create / update / soft-delete plot,     *)
(* create / update deceased record), the plot listing, the audit recorder  *)
(* and the notifier.  Every `await` of a handler is one step of the model, *)
(* so requests interleave exactly where Node can interleave them.          *)
(*                                                                         *)
(* JavaScript values are tagged records: Str(s) is the string whose UTF-16 *)
(* code units are the sequence s, Num(n) a number, UNDEF / NULL the two    *)
(* empty values.  SQL NULL is NULL as well.  Columns that no handler reads *)
(* or compares (created_at, updated_at, ip_address, details) are left out. *)
(***************************************************************************)
EXTENDS Integers, Sequences, FiniteSets, TLC

(***************************************************************************)
(* Bounds of the model.                                                    *)
(***************************************************************************)
\* Requests begun in one behaviour of Spec (every route, every fault).
MaxRequests == 3

\* Requests begun in one behaviour of SpecPlots (the plot routes, no fault).
MaxPlotRequests == 4

\* Requests begun in one behaviour of SpecUpdate (update-plot on a stored plot).
MaxUpdateRequests == 1

\* Requests begun in one behaviour of SpecCreate (create-plot, validation,
\* audit fault, notifier).
MaxCreateRequests == 3

\* Requests begun in one behaviour of SpecDeceased (the deceased-record routes).
MaxDeceasedRequests == 3

\* The concurrent request slots: express serves any number of requests at
\* once; two in flight are what the concurrency statements speak about.
Reqs == {"r1", "r2"}

(***************************************************************************)
(* JavaScript / SQL values.                                                *)
(***************************************************************************)
UNDEF == [undef |-> TRUE]
NULL == [null |-> TRUE]
Str(s) == [str |-> s]
Num(n) == [num |-> n]
Obj(o) == [obj |-> o]

IsStr(v) == DOMAIN v = {"str"}
IsNum(v) == DOMAIN v = {"num"}

\* JavaScript truthiness: undefined, null, "" and 0 are falsy.
Truthy(v) == v \notin {UNDEF, NULL, Str(<<>>), Num(0)}

\* a || b
OrElse(a, b) == IF Truthy(a) THEN a ELSE b

\* a ?? b
Nullish(a, b) == IF a \in {UNDEF, NULL} THEN b ELSE a

\* Mutation of COALESCE: SET f = $i, the parameter alone.
COALESCE_ParameterOnly(a, b) == a

\* SQL COALESCE(a, b)
COALESCE(a, b) == IF a = NULL THEN b ELSE a

\* The space character (code unit 32) is the white space of the model's strings.
IsSpace(c) == c = 32

RECURSIVE TrimLeft(_)
TrimLeft(s) == IF s # <<>> /\ IsSpace(Head(s)) THEN TrimLeft(Tail(s)) ELSE s

RECURSIVE TrimRight(_)
TrimRight(s) ==
  IF s # <<>> /\ IsSpace(s[Len(s)]) THEN TrimRight(SubSeq(s, 1, Len(s) - 1)) ELSE s

\* String.prototype.trim on the code units
Trim(s) == TrimRight(TrimLeft(s))

\* String.prototype.toUpperCase on the code units (ASCII letters)
UpperChar(c) == IF c >= 97 /\ c <= 122 THEN c - 32 ELSE c
ToUpperCase(s) == [i \in 1..Len(s) |-> UpperChar(s[i])]

\* String(v) for the values the model passes to it
StringOf(v) == IF IsStr(v) THEN v.str ELSE <<>>

\* Lexicographic order of two strings (ORDER BY plot_code)
RECURSIVE SeqLess(_, _)
SeqLess(a, b) ==
  IF b = <<>> THEN FALSE
  ELSE IF a = <<>> THEN TRUE
  ELSE IF Head(a) # Head(b) THEN Head(a) < Head(b)
  ELSE SeqLess(Tail(a), Tail(b))

\* String constants of the source.
Available == Str(<<65, 118, 97, 105, 108, 97, 98, 108, 101>>)
BURIAL == Str(<<66, 85, 82, 73, 65, 76>>)

(***************************************************************************)
(* Configuration and fixed tables.                                         *)
(***************************************************************************)
\* users: username, role, permission
users ==
  { [username |-> "manager", role |-> "manager", permission |-> "full"],
    [username |-> "administrator", role |-> "administrator", permission |-> "full"],
    [username |-> "supervisor", role |-> "supervisor", permission |-> "read"] }

\* The rows of table cemeteries (read-only for the server).
Cemeteries == {1, 2}

\* A token: the payload signToken signs, whether its signature verifies under
\* JWT_SECRET, and whether its 8 hours have passed.
signToken(user) == [payload |-> user, signed |-> TRUE, expired |-> FALSE]

Tokens ==
  { signToken(u) : u \in {v \in users : v.username \in {"manager", "supervisor"}} }
    \cup { [payload |-> u, signed |-> FALSE, expired |-> FALSE] :
             u \in {v \in users : v.username = "manager"} }
    \cup { [payload |-> u, signed |-> TRUE, expired |-> TRUE] :
             u \in {v \in users : v.username = "manager"} }

\* The Authorization header split on " ": absent, a scheme alone, or a scheme
\* and a token.
AuthHeaders == { <<>>, <<"Bearer">> } \cup { <<"Bearer", t>> : t \in Tokens }

\* jwt.verify(token, JWT_SECRET): the payload, or a throw
jwtVerifies(token) == token.signed /\ ~token.expired

NoUser == [username |-> "", role |-> "", permission |-> ""]

\* authRequired: "next" and req.user, or the 401 it answers
authRequired(header) ==
  IF Len(header) < 2 THEN [next |-> FALSE, status |-> 401, error |-> "Missing token", user |-> NoUser]
  ELSE IF jwtVerifies(header[2])
       THEN [next |-> TRUE, status |-> 0, error |-> "", user |-> header[2].payload]
       ELSE [next |-> FALSE, status |-> 401, error |-> "Invalid token", user |-> NoUser]

\* Mutation of requireFullControl: the permission is not looked at.
requireFullControl_Open(user) == [next |-> TRUE, status |-> 0, error |-> ""]

\* requireFullControl: "next", or the 403 it answers
requireFullControl(user) ==
  IF user.permission # "full"
  THEN [next |-> FALSE, status |-> 403, error |-> "Read-only role"]
  ELSE [next |-> TRUE, status |-> 0, error |-> ""]

\* emailEnabled: Boolean(!DISABLE_EMAIL && SMTP_HOST && SMTP_USER && SMTP_PASS
\* && NOTIFY_TO.length); smtp stands for the three transport credentials.
emailEnabledOf(e) == ~e.DISABLE_EMAIL /\ e.smtp /\ e.NOTIFY_TO > 0

\* The environments the server is started in: the notification channel
\* configured or without recipients, and PLOTS_PER_CEMETERY_LIMIT
\* (process.env.PLOTS_PER_CEMETERY_LIMIT || 10) set to a small limit.
Envs ==
  { [DISABLE_EMAIL |-> FALSE, smtp |-> TRUE, NOTIFY_TO |-> n, PLOTS_PER_CEMETERY_LIMIT |-> 1] :
      n \in {0, 1} }

PlotEnvs ==
  { [DISABLE_EMAIL |-> FALSE, smtp |-> TRUE, NOTIFY_TO |-> 0, PLOTS_PER_CEMETERY_LIMIT |-> k] :
      k \in {1, 2} }

\* The environments of SpecCreate: the notification channel configured or
\* without recipients, two plots per cemetery.
CreateEnvs ==
  { [DISABLE_EMAIL |-> FALSE, smtp |-> TRUE, NOTIFY_TO |-> n, PLOTS_PER_CEMETERY_LIMIT |-> 2] :
      n \in {0, 1} }

(***************************************************************************)
(* Rows.                                                                   *)
(***************************************************************************)
PlotFields ==
  {"owner_name", "gender", "status", "payment_date", "row_num", "col_num", "coords"}

DeceasedFields ==
  { "deceased_full_name", "id_number", "date_of_birth", "date_of_death",
    "burial_type", "burial_date", "next_of_kin_name", "next_of_kin_relationship",
    "next_of_kin_phone", "next_of_kin_email", "next_of_kin_address",
    "undertaker_name", "undertaker_phone", "cause_of_death", "notes" }

\* JSON.stringify(v)
JSONstringify(v) == [json |-> v]

\* A request body: the named fields, every other field absent (undefined).
Body(fields, given) == [f \in fields |-> IF f \in DOMAIN given THEN given[f] ELSE UNDEF]

\* The parameter list of INSERT INTO plots (server.js 325-335), as the row
\* the statement stores under the next id.
InsertPlotRow(id, b) ==
  [ id |-> id,
    cemetery_id |-> b.cemetery_id.num,
    plot_code |-> Str(Trim(StringOf(b.plot_code))),
    status |-> OrElse(b.status, Available),
    owner_name |-> OrElse(b.owner_name, NULL),
    gender |-> OrElse(b.gender, NULL),
    payment_date |-> OrElse(b.payment_date, NULL),
    row_num |-> Nullish(b.row_num, NULL),
    col_num |-> Nullish(b.col_num, NULL),
    coords |-> IF Truthy(b.coords) THEN JSONstringify(b.coords) ELSE NULL,
    deleted_at |-> NULL ]

\* The parameters $1..$7 of UPDATE plots (server.js 405-413)
UpdatePlotParams(b) ==
  [ f \in PlotFields |->
      IF f = "coords"
      THEN (IF Truthy(b.coords) THEN JSONstringify(b.coords) ELSE NULL)
      ELSE Nullish(b[f], NULL) ]

\* UPDATE plots SET f = COALESCE($i, f) ... applied to one row
UpdatePlotRow(row, b) ==
  [ c \in DOMAIN row |->
      IF c \in PlotFields THEN COALESCE(UpdatePlotParams(b)[c], row[c]) ELSE row[c] ]

\* UPDATE plots SET deleted_at = NOW() applied to one row
SoftDeleteRow(row, t) == [row EXCEPT !.deleted_at = Num(t)]

\* The parameter list of INSERT INTO deceased_records (server.js 579-596)
InsertDeceasedRow(id, plotId, b) ==
  [ id |-> id,
    plot_id |-> plotId,
    f |-> [ c \in DeceasedFields |->
              IF c = "deceased_full_name" THEN Str(Trim(StringOf(b[c])))
              ELSE IF c = "burial_type" THEN Str(ToUpperCase(OrElse(b[c], BURIAL).str))
              ELSE OrElse(b[c], NULL) ] ]

\* values of PATCH /api/deceased/:id (server.js 656)
UpdateDeceasedValue(v) == IF v = Str(<<>>) THEN NULL ELSE Nullish(v, NULL)

\* UPDATE deceased_records SET f = COALESCE($i, f) ... applied to one row
UpdateDeceasedRow(row, b) ==
  [row EXCEPT !.f = [c \in DeceasedFields |-> COALESCE(UpdateDeceasedValue(b[c]), row.f[c])]]

\* The validation of POST /api/plots/:plotId/deceased (server.js 557)
DeceasedNameInvalid(name) == ~Truthy(name) \/ Len(Trim(StringOf(name))) < 2

\* The validation of POST /api/plots (server.js 306)
CreatePlotInvalid(b) == ~Truthy(b.cemetery_id) \/ ~Truthy(b.plot_code)

(***************************************************************************)
(* State.                                                                  *)
(***************************************************************************)
VARIABLES
  mode,              \* which requests the clients send: "all", "plots" or "update"
  env,               \* the environment the server was started in
  plots,             \* table plots: the row of id i is plots[i]
  deceased_records,  \* table deceased_records, likewise
  audit_logs,        \* table audit_logs, in insertion order
  outbox,            \* the mails handed to the transporter, in order
  now,               \* the database clock read by NOW()
  started,           \* requests begun so far
  pc,                \* per request: the await its handler is suspended at
  req,               \* per request: route, Authorization header, req.user, parameters
  loc,               \* per request: the handler's local rows
  resp,              \* per request: the response sent (status 0: none yet)
  hist               \* per request: the rows it wrote, the outcome of its audit
                     \* write and the audit_logs rows it added, its mail, and the
                     \* await at which a query of its route threw

vars ==
  << mode, env, plots, deceased_records, audit_logs, outbox, now, started, pc, req, loc,
     resp, hist >>

db == << plots, deceased_records, audit_logs, outbox, now >>

emailEnabled == emailEnabledOf(env)

PLOTS_PER_CEMETERY_LIMIT == env.PLOTS_PER_CEMETERY_LIMIT

cfg == << mode, env >>

NoRow == [none |-> TRUE]
NoResp == [status |-> 0, body |-> NoRow]
NoReq == [op |-> "", header |-> <<>>, user |-> NoUser, p |-> NoRow]
NoLoc == [n |-> NULL, before |-> NoRow, row |-> NoRow]
NoHist == [wrote |-> {}, audit |-> "none", entries |-> {}, mail |-> "none", threw |-> ""]

MutatingOps == {"createPlot", "updatePlot", "deletePlot", "createDeceased", "updateDeceased"}

Start ==
  /\ plots = <<>>
  /\ deceased_records = <<>>
  /\ audit_logs = <<>>
  /\ outbox = <<>>
  /\ now = 1
  /\ started = 0
  /\ pc = [r \in Reqs |-> "idle"]
  /\ req = [r \in Reqs |-> NoReq]
  /\ loc = [r \in Reqs |-> NoLoc]
  /\ resp = [r \in Reqs |-> NoResp]
  /\ hist = [r \in Reqs |-> NoHist]

Init == mode = "all" /\ env \in Envs /\ Start

InitPlots == mode = "plots" /\ env \in PlotEnvs /\ Start

InitCreate == mode = "create" /\ env \in CreateEnvs /\ Start

\* A plot stored earlier by POST /api/plots with every field given.
StoredPlot ==
  [ id |-> 1,
    cemetery_id |-> 1,
    plot_code |-> Str(<<65>>),
    status |-> Str(<<79>>),
    owner_name |-> Str(<<79>>),
    gender |-> Str(<<70>>),
    payment_date |-> Str(<<50>>),
    row_num |-> Num(3),
    col_num |-> Num(4),
    coords |-> JSONstringify(Obj(<<1, 2>>)),
    deleted_at |-> NULL ]

\* The server is started on a database that holds one plot.
InitUpdate ==
  /\ mode = "update"
  /\ env \in {e \in PlotEnvs : e.PLOTS_PER_CEMETERY_LIMIT = 2}
  /\ plots = <<StoredPlot>>
  /\ deceased_records = <<>>
  /\ audit_logs = <<>>
  /\ outbox = <<>>
  /\ now = 1
  /\ started = 0
  /\ pc = [r \in Reqs |-> "idle"]
  /\ req = [r \in Reqs |-> NoReq]
  /\ loc = [r \in Reqs |-> NoLoc]
  /\ resp = [r \in Reqs |-> NoResp]
  /\ hist = [r \in Reqs |-> NoHist]

\* The server is started on a database that holds one plot; the deceased
\* record routes are exercised.
InitDeceased ==
  /\ mode = "deceased"
  /\ env \in {e \in PlotEnvs : e.PLOTS_PER_CEMETERY_LIMIT = 2}
  /\ plots = <<StoredPlot>>
  /\ deceased_records = <<>>
  /\ audit_logs = <<>>
  /\ outbox = <<>>
  /\ now = 1
  /\ started = 0
  /\ pc = [r \in Reqs |-> "idle"]
  /\ req = [r \in Reqs |-> NoReq]
  /\ loc = [r \in Reqs |-> NoLoc]
  /\ resp = [r \in Reqs |-> NoResp]
  /\ hist = [r \in Reqs |-> NoHist]

(***************************************************************************)
(* Queries.                                                                *)
(***************************************************************************)
PlotIds == 1..Len(plots)
DeceasedIds == 1..Len(deceased_records)

\* Mutation of CountPlots: the count without "AND deleted_at IS NULL".
CountPlots_AllRows(c) == Cardinality({i \in PlotIds : plots[i].cemetery_id = c})

\* SELECT COUNT(*) FROM plots WHERE cemetery_id=$1 AND deleted_at IS NULL
CountPlots(c) ==
  Cardinality({i \in PlotIds : plots[i].cemetery_id = c /\ plots[i].deleted_at = NULL})

\* SELECT p.* FROM plots p JOIN cemeteries c ... WHERE p.id=$1 AND p.deleted_at IS NULL
SelectLivePlot(id) ==
  {i \in PlotIds : i = id /\ plots[i].cemetery_id \in Cemeteries /\ plots[i].deleted_at = NULL}

\* The rows of a listing: WHERE cemetery_id = $1 AND ($2 = true OR deleted_at IS NULL)
ListMatches(c, includeDeleted) ==
  {i \in PlotIds : plots[i].cemetery_id = c /\ (includeDeleted \/ plots[i].deleted_at = NULL)}

\* Rows before row i in ORDER BY plot_code (ties, which SQL leaves open, by id)
RankIn(S, i) ==
  Cardinality({j \in S : \/ SeqLess(plots[j].plot_code.str, plots[i].plot_code.str)
                         \/ plots[j].plot_code = plots[i].plot_code /\ j < i})

\* ... ORDER BY plot_code LIMIT $3: the ids of the rows returned
ListLimited(c, includeDeleted, limit) ==
  LET S == ListMatches(c, includeDeleted) IN {i \in S : RankIn(S, i) < limit}

\* GET /api/cemeteries/:id/plots
ListPlots(c, includeDeleted) == ListLimited(c, includeDeleted, PLOTS_PER_CEMETERY_LIMIT)

\* plot_code is unique within a cemetery (data model of the specification):
\* the INSERT of a second row with the code fails.
DuplicateCode(row) ==
  \E i \in PlotIds :
    plots[i].cemetery_id = row.cemetery_id /\ plots[i].plot_code = row.plot_code

(***************************************************************************)
(* Requests the model sends.                                               *)
(***************************************************************************)
CodeA == Str(<<65>>)
CodeB == Str(<<66>>)
CodeZ == Str(<<90>>)
Reserved == Str(<<82>>)
Owner == Str(<<79>>)
NameAl == Str(<<65, 108>>)
NameA == Str(<<65>>)
Note == Str(<<110>>)
CodeBlank == Str(<<32>>)
NamePadded == Str(<<32, 65, 32>>)
TypeLower == Str(<<99>>)
CodePadded == Str(<<32, 66, 32>>)

CreatePlotBodies ==
  { Body({"cemetery_id", "plot_code"} \cup PlotFields, g) :
      g \in IF mode = "plots"
            THEN { [cemetery_id |-> Num(1), plot_code |-> k] : k \in {CodeA, CodeB, CodeZ} }
                   \cup { [cemetery_id |-> Num(2), plot_code |-> CodeA] }
            ELSE IF mode = "create"
            THEN { [cemetery_id |-> Num(1), plot_code |-> k] :
                     k \in {CodeA, CodeBlank, CodePadded, Str(<<>>)} }
                   \cup { [plot_code |-> CodeA] }
            ELSE { [cemetery_id |-> Num(1), plot_code |-> CodeA],
                   [cemetery_id |-> Num(1)] } }

\* The values an update-plot request of SpecUpdate supplies for a field:
\* null, a falsy value and a new value.
SuppliedValues(f) ==
  IF f = "coords" THEN {NULL, Num(0), Obj(<<7, 7>>)}
  ELSE IF f \in {"row_num", "col_num"} THEN {NULL, Num(7)}
  ELSE IF f = "owner_name" THEN {NULL, Str(<<>>), Reserved}
  ELSE {NULL, Reserved}

\* The SET clauses are independent of each other: a request of SpecUpdate
\* supplies no field, one field or a pair of fields.
SuppliedFields == {S \in SUBSET PlotFields : Cardinality(S) <= 2}

UpdatePlotBodies ==
  IF mode = "update"
  THEN { Body(PlotFields, g) :
           g \in UNION { {h \in [S -> UNION {SuppliedValues(f) : f \in PlotFields}] :
                            \A f \in S : h[f] \in SuppliedValues(f)} :
                         S \in SuppliedFields } }
  ELSE { Body(PlotFields, g) : g \in { [status |-> Reserved, owner_name |-> NULL] } }

CreateDeceasedBodies ==
  { Body(DeceasedFields, g) :
      g \in IF mode = "deceased"
            THEN { [deceased_full_name |-> NameAl],
                   [deceased_full_name |-> NameAl, burial_type |-> TypeLower],
                   [deceased_full_name |-> NamePadded] }
            ELSE { [deceased_full_name |-> NameAl, notes |-> Note],
                   [deceased_full_name |-> NameA] } }

UpdateDeceasedBodies ==
  { Body(DeceasedFields, g) :
      g \in IF mode = "deceased"
            THEN { [deceased_full_name |-> NameA],
                   [burial_type |-> TypeLower],
                   [notes |-> Note] }
            ELSE { [notes |-> Str(<<>>)], [id_number |-> Note] } }

\* Requests begun in one behaviour
Budget ==
  IF mode = "plots" THEN MaxPlotRequests
  ELSE IF mode = "update" THEN MaxUpdateRequests
  ELSE IF mode = "create" THEN MaxCreateRequests
  ELSE IF mode = "deceased" THEN MaxDeceasedRequests
  ELSE MaxRequests

\* Authorization headers that pass authRequired and requireFullControl
FullHeaders ==
  { h \in AuthHeaders :
      authRequired(h).next /\ requireFullControl(authRequired(h).user).next }

(***************************************************************************)
(* Handlers.                                                               *)
(***************************************************************************)
\* res.status(status).json(body): the handler of r ends
Respond(r, status, body) ==
  /\ resp' = [resp EXCEPT ![r] = [status |-> status, body |-> body]]
  /\ pc' = [pc EXCEPT ![r] = "done"]

\* A request arrives at a slot whose previous request, if any, was answered.
Arrives(r) ==
  /\ pc[r] \in {"idle", "done"}
  /\ started < Budget
  /\ started' = started + 1
  /\ loc' = [loc EXCEPT ![r] = NoLoc]
  /\ hist' = [hist EXCEPT ![r] = NoHist]

\* The success response of a mutating route
Success(op, row) ==
  IF op \in {"createPlot", "createDeceased"} THEN [status |-> 201, body |-> row]
  ELSE IF op = "deletePlot" THEN [status |-> 200, body |-> [ok |-> TRUE]]
  ELSE [status |-> 200, body |-> row]

\* The catch block of each route: the 500 it answers
Failure(op) ==
  IF op = "updatePlot" THEN [status |-> 500, body |-> [error |-> "Failed to update plot"]]
  ELSE [status |-> 500, body |-> [error |-> "e.message"]]

\* Mutation of Rejected: the refused attempt is written to audit_logs.
Rejected_Logged(r) ==
  /\ Arrives(r)
  /\ \E op \in MutatingOps \cup {"listPlots"}, h \in AuthHeaders :
       LET a == authRequired(h)
           f == requireFullControl(a.user)
       IN /\ ~a.next \/ (op \in MutatingOps /\ ~f.next)
          /\ req' = [req EXCEPT ![r] = [op |-> op, header |-> h, user |-> a.user, p |-> NoRow]]
          /\ IF ~a.next THEN Respond(r, a.status, [error |-> a.error])
             ELSE Respond(r, f.status, [error |-> f.error])
  /\ audit_logs' = Append(audit_logs, [action |-> "REJECTED"])
  /\ UNCHANGED << cfg, plots, deceased_records, outbox, now >>

\* authRequired / requireFullControl answer the request themselves: 401 or 403.
Rejected(r) ==
  /\ Arrives(r)
  /\ \E op \in MutatingOps \cup {"listPlots"}, h \in AuthHeaders :
       LET a == authRequired(h)
           f == requireFullControl(a.user)
       IN /\ ~a.next \/ (op \in MutatingOps /\ ~f.next)
          /\ req' = [req EXCEPT ![r] = [op |-> op, header |-> h, user |-> a.user, p |-> NoRow]]
          /\ IF ~a.next THEN Respond(r, a.status, [error |-> a.error])
             ELSE Respond(r, f.status, [error |-> f.error])
  /\ UNCHANGED << cfg, db >>

\* The request passes both middlewares and its handler starts with parameters p.
Admitted(r, op, p) ==
  /\ Arrives(r)
  /\ \E h \in FullHeaders :
       req' = [req EXCEPT ![r] = [op |-> op, header |-> h, user |-> authRequired(h).user, p |-> p]]

\* POST /api/plots up to its first await (server.js 303-309)
BeginCreatePlot(r) ==
  /\ \E b \in CreatePlotBodies :
       /\ Admitted(r, "createPlot", [body |-> b])
       /\ IF CreatePlotInvalid(b)
          THEN Respond(r, 400, [error |-> "cemetery_id and plot_code are required"])
          ELSE pc' = [pc EXCEPT ![r] = "count"] /\ resp' = [resp EXCEPT ![r] = NoResp]
  /\ UNCHANGED << cfg, db >>

\* Mutation of LimitReached: > for >=.
LimitReached_OffByOne(n) == n > PLOTS_PER_CEMETERY_LIMIT

\* The capacity test of POST /api/plots
LimitReached(n) == n >= PLOTS_PER_CEMETERY_LIMIT

\* the COUNT query returns (server.js 309-315)
CountPlot(r) ==
  /\ pc[r] = "count"
  /\ LET n == CountPlots(req[r].p.body.cemetery_id.num)
     IN /\ loc' = [loc EXCEPT ![r].n = Num(n)]
        /\ IF LimitReached(n)
           THEN Respond(r, 400, [error |-> "Plot limit reached"])
           ELSE pc' = [pc EXCEPT ![r] = "insert"] /\ UNCHANGED resp
  /\ UNCHANGED << cfg, db, started, req, hist >>

\* the INSERT returns (server.js 317-340)
InsertPlot(r) ==
  /\ pc[r] = "insert"
  /\ LET row == InsertPlotRow(Len(plots) + 1, req[r].p.body)
     IN IF DuplicateCode(row)
        THEN /\ Respond(r, Failure(req[r].op).status, Failure(req[r].op).body)
             /\ hist' = [hist EXCEPT ![r].threw = pc[r]]
             /\ UNCHANGED << plots, loc >>
        ELSE /\ plots' = Append(plots, row)
             /\ loc' = [loc EXCEPT ![r].row = row]
             /\ hist' = [hist EXCEPT ![r].wrote = @ \cup {<<"plots", row.id>>}]
             /\ pc' = [pc EXCEPT ![r] = "audit"]
             /\ UNCHANGED resp
  /\ UNCHANGED << cfg, deceased_records, audit_logs, outbox, now, started, req >>

\* PATCH /api/plots/:id and DELETE /api/plots/:id up to their first await
BeginUpdatePlot(r) ==
  /\ \E id \in 1..(Len(plots) + 1), b \in UpdatePlotBodies :
       Admitted(r, "updatePlot", [id |-> id, body |-> b])
  /\ pc' = [pc EXCEPT ![r] = "select"]
  /\ resp' = [resp EXCEPT ![r] = NoResp]
  /\ UNCHANGED << cfg, db >>

BeginDeletePlot(r) ==
  /\ \E id \in 1..(Len(plots) + 1) : Admitted(r, "deletePlot", [id |-> id])
  /\ pc' = [pc EXCEPT ![r] = "select"]
  /\ resp' = [resp EXCEPT ![r] = NoResp]
  /\ UNCHANGED << cfg, db >>

\* Mutation of SelectPlot: the audit write is started when the SELECT
\* returns, before the UPDATE.
SelectPlot_AuditFirst(r) ==
  /\ pc[r] = "select"
  /\ IF SelectLivePlot(req[r].p.id) = {}
     THEN /\ Respond(r, 404, [error |-> "Plot not found"])
          /\ UNCHANGED loc
     ELSE /\ pc' = [pc EXCEPT ![r] = "audit"]
          /\ loc' = [loc EXCEPT ![r].before = plots[req[r].p.id], ![r].row = plots[req[r].p.id]]
          /\ UNCHANGED resp
  /\ UNCHANGED << cfg, db, started, req, hist >>

\* the SELECT ... WHERE p.id=$1 AND p.deleted_at IS NULL returns
\* (server.js 377-385, 475-484)
SelectPlot(r) ==
  /\ pc[r] = "select"
  /\ IF SelectLivePlot(req[r].p.id) = {}
     THEN /\ Respond(r, 404, [error |-> IF req[r].op = "updatePlot" THEN "Plot not found"
                                        ELSE "Plot not found or already deleted"])
          /\ UNCHANGED loc
     ELSE /\ pc' = [pc EXCEPT ![r] = IF req[r].op = "updatePlot" THEN "update" ELSE "softdel"]
          /\ loc' = [loc EXCEPT ![r].before = plots[req[r].p.id], ![r].row = plots[req[r].p.id]]
          /\ UNCHANGED resp
  /\ UNCHANGED << cfg, db, started, req, hist >>

\* the UPDATE plots ... WHERE id = $8 RETURNING * returns (server.js 390-417)
UpdatePlot(r) ==
  /\ pc[r] = "update"
  /\ LET id == req[r].p.id
         after == UpdatePlotRow(plots[id], req[r].p.body)
     IN /\ plots' = [plots EXCEPT ![id] = after]
        /\ loc' = [loc EXCEPT ![r].row = after]
        /\ hist' = [hist EXCEPT ![r].wrote = @ \cup {<<"plots", id>>}]
  /\ pc' = [pc EXCEPT ![r] = "audit"]
  /\ UNCHANGED << cfg, deceased_records, audit_logs, outbox, now, started, req, resp >>

\* the UPDATE plots SET deleted_at = NOW() WHERE id=$1 returns (server.js 486)
SoftDelete(r) ==
  /\ pc[r] = "softdel"
  /\ LET id == req[r].p.id
     IN /\ plots' = [plots EXCEPT ![id] = SoftDeleteRow(@, now)]
        /\ hist' = [hist EXCEPT ![r].wrote = @ \cup {<<"plots", id>>}]
  /\ now' = now + 1
  /\ pc' = [pc EXCEPT ![r] = "audit"]
  /\ UNCHANGED << cfg, deceased_records, audit_logs, outbox, started, req, loc, resp >>

\* POST /api/plots/:plotId/deceased up to its first await (server.js 535-561)
BeginCreateDeceased(r) ==
  /\ \E plotId \in 1..(Len(plots) + 1), b \in CreateDeceasedBodies :
       /\ Admitted(r, "createDeceased", [plotId |-> plotId, body |-> b])
       /\ IF DeceasedNameInvalid(b.deceased_full_name)
          THEN Respond(r, 400, [error |-> "deceased_full_name is required"])
          ELSE pc' = [pc EXCEPT ![r] = "insertDeceased"] /\ resp' = [resp EXCEPT ![r] = NoResp]
  /\ UNCHANGED << cfg, db >>

\* deceased_records.plot_id references plots (external interfaces of the
\* specification): the INSERT for a plot id with no row fails.
ForeignKeyHolds(plotId) == plotId \in PlotIds

\* the INSERT INTO deceased_records returns (server.js 561-599)
InsertDeceased(r) ==
  /\ pc[r] = "insertDeceased"
  /\ LET row == InsertDeceasedRow(Len(deceased_records) + 1, req[r].p.plotId, req[r].p.body)
     IN IF ~ForeignKeyHolds(req[r].p.plotId)
        THEN /\ Respond(r, Failure(req[r].op).status, Failure(req[r].op).body)
             /\ hist' = [hist EXCEPT ![r].threw = pc[r]]
             /\ UNCHANGED << deceased_records, loc >>
        ELSE /\ deceased_records' = Append(deceased_records, row)
             /\ loc' = [loc EXCEPT ![r].row = row]
             /\ hist' = [hist EXCEPT ![r].wrote = @ \cup {<<"deceased_records", row.id>>}]
             /\ pc' = [pc EXCEPT ![r] = "audit"]
             /\ UNCHANGED resp
  /\ UNCHANGED << cfg, plots, audit_logs, outbox, now, started, req >>

\* PATCH /api/deceased/:id up to its first await (server.js 633-659)
BeginUpdateDeceased(r) ==
  /\ \E id \in 1..(Len(deceased_records) + 1), b \in UpdateDeceasedBodies :
       Admitted(r, "updateDeceased", [id |-> id, body |-> b])
  /\ pc' = [pc EXCEPT ![r] = "updateDeceased"]
  /\ resp' = [resp EXCEPT ![r] = NoResp]
  /\ UNCHANGED << cfg, db >>

\* the UPDATE deceased_records ... RETURNING * returns (server.js 659-667)
UpdateDeceased(r) ==
  /\ pc[r] = "updateDeceased"
  /\ LET id == req[r].p.id
     IN IF id \notin DeceasedIds
        THEN /\ Respond(r, 404, [error |-> "Record not found"])
             /\ UNCHANGED << deceased_records, loc, hist >>
        ELSE LET after == UpdateDeceasedRow(deceased_records[id], req[r].p.body)
             IN /\ deceased_records' = [deceased_records EXCEPT ![id] = after]
                /\ loc' = [loc EXCEPT ![r].row = after]
                /\ hist' = [hist EXCEPT ![r].wrote = @ \cup {<<"deceased_records", id>>}]
                /\ pc' = [pc EXCEPT ![r] = "audit"]
                /\ UNCHANGED resp
  /\ UNCHANGED << cfg, plots, audit_logs, outbox, now, started, req >>

\* Mutation of AuditEntry: every route logs under the tag of create-plot.
AuditEntry_OneTag(op, user, row) ==
  [ action |-> "CREATE_PLOT",
    entity_type |-> "plot",
    entity_id |-> row.id,
    cemetery_id |-> NULL,
    plot_code |-> NULL,
    actor_username |-> user.username,
    actor_role |-> user.role ]

\* The entry each route hands to writeAuditSafe, with the actor it adds
AuditEntry(op, user, row) ==
  LET plot == op \in {"createPlot", "updatePlot", "deletePlot"}
  IN [ action |-> CASE op = "createPlot" -> "CREATE_PLOT"
                    [] op = "updatePlot" -> "UPDATE_PLOT"
                    [] op = "deletePlot" -> "DELETE_PLOT"
                    [] op = "createDeceased" -> "CREATE_DECEASED"
                    [] OTHER -> "UPDATE_DECEASED",
       entity_type |-> IF plot THEN "plot" ELSE "deceased",
       entity_id |-> row.id,
       cemetery_id |-> IF plot THEN Num(row.cemetery_id) ELSE NULL,
       plot_code |-> IF plot THEN row.plot_code ELSE NULL,
       actor_username |-> user.username,
       actor_role |-> user.role ]

\* Mutation of AuditThrowOutcome: writeAuditSafe without its try / catch.
AuditThrowOutcome_Rethrown == "rethrown"

\* What a throw of the INSERT INTO audit_logs becomes in writeAuditSafe:
\* caught and logged, the handler goes on.
AuditThrowOutcome == "swallowed"

\* sendMail up to its await: nothing unless the channel is configured
\* (server.js 152-155); the mail is handed to the transporter.
MailOf(r) == [op |-> req[r].op, entity_id |-> loc[r].row.id, by |-> req[r].user.username]

\* The route calls sendMail and, when that returns, answers.
NotifyAndRespond(r, h) ==
  IF emailEnabled
  THEN /\ outbox' = Append(outbox, MailOf(r))
       /\ hist' = [hist EXCEPT ![r] = [h EXCEPT !.mail = "started"]]
       /\ pc' = [pc EXCEPT ![r] = "mailing"]
       /\ UNCHANGED resp
  ELSE /\ Respond(r, Success(req[r].op, loc[r].row).status, Success(req[r].op, loc[r].row).body)
       /\ hist' = [hist EXCEPT ![r] = h]
       /\ UNCHANGED outbox

\* What follows writeAuditSafe in each route, up to the next await.
AfterAudit(r, h) ==
  IF req[r].op = "createPlot"
  THEN /\ pc' = [pc EXCEPT ![r] = "lookup"]
       /\ hist' = [hist EXCEPT ![r] = h]
       /\ UNCHANGED << resp, outbox >>
  ELSE IF req[r].op = "updateDeceased"
  THEN /\ Respond(r, Success(req[r].op, loc[r].row).status, Success(req[r].op, loc[r].row).body)
       /\ hist' = [hist EXCEPT ![r] = h]
       /\ UNCHANGED outbox
  ELSE NotifyAndRespond(r, h)

\* writeAuditSafe: the INSERT INTO audit_logs returns (server.js 198-223)
Audit(r) ==
  /\ pc[r] = "audit"
  /\ audit_logs' = Append(audit_logs, AuditEntry(req[r].op, req[r].user, loc[r].row))
  /\ AfterAudit(r, [hist[r] EXCEPT !.audit = "ok", !.entries = @ \cup {Len(audit_logs) + 1}])
  /\ UNCHANGED << cfg, plots, deceased_records, now, started, req, loc >>

\* writeAuditSafe: the INSERT INTO audit_logs throws (server.js 224-226)
AuditThrows(r) ==
  /\ pc[r] = "audit"
  /\ IF AuditThrowOutcome = "swallowed"
     THEN AfterAudit(r, [hist[r] EXCEPT !.audit = "failed"])
     ELSE /\ Respond(r, Failure(req[r].op).status, Failure(req[r].op).body)
          /\ hist' = [hist EXCEPT ![r].audit = "failed"]
          /\ UNCHANGED outbox
  /\ UNCHANGED << cfg, plots, deceased_records, audit_logs, now, started, req, loc >>

\* getCemeteryName returns (server.js 229-232, 348-349)
Lookup(r) ==
  /\ pc[r] = "lookup"
  /\ NotifyAndRespond(r, hist[r])
  /\ UNCHANGED << cfg, plots, deceased_records, audit_logs, now, started, req, loc >>

\* mailTransporter.sendMail settles, resolved or rejected (the rejection is
\* caught in sendMail, server.js 161-163), and the route answers.
MailSettles(r) ==
  /\ pc[r] = "mailing"
  /\ \E outcome \in {"ok", "failed"} : hist' = [hist EXCEPT ![r].mail = outcome]
  /\ Respond(r, Success(req[r].op, loc[r].row).status, Success(req[r].op, loc[r].row).body)
  /\ UNCHANGED << cfg, db, started, req, loc >>

\* A pool.query awaited in the route's own try block throws: the catch block
\* answers 500.
QueryThrows(r) ==
  /\ pc[r] \in {"count", "insert", "select", "update", "softdel", "insertDeceased",
                "updateDeceased", "lookup", "query"}
  /\ Respond(r, Failure(req[r].op).status, Failure(req[r].op).body)
  /\ hist' = [hist EXCEPT ![r].threw = pc[r]]
  /\ UNCHANGED << cfg, db, started, req, loc >>

\* GET /api/cemeteries/:id/plots up to its await (server.js 278-292)
BeginListPlots(r) ==
  /\ Arrives(r)
  /\ \E h \in {x \in AuthHeaders : authRequired(x).next}, c \in Cemeteries, d \in BOOLEAN :
       req' = [req EXCEPT ![r] = [op |-> "listPlots", header |-> h, user |-> authRequired(h).user,
                                  p |-> [id |-> c, include_deleted |-> d]]]
  /\ pc' = [pc EXCEPT ![r] = "query"]
  /\ resp' = [resp EXCEPT ![r] = NoResp]
  /\ UNCHANGED << cfg, db >>

\* The rows of a listing in the order returned
RowsInOrder(S) ==
  [k \in 1..Cardinality(S) |-> plots[CHOOSE i \in S : RankIn(S, i) = k - 1]]

\* the listing query returns (server.js 294)
ListQuery(r) ==
  /\ pc[r] = "query"
  /\ Respond(r, 200, [rows |-> RowsInOrder(ListPlots(req[r].p.id, req[r].p.include_deleted))])
  /\ UNCHANGED << cfg, db, started, req, loc, hist >>

Next ==
  \E r \in Reqs :
    \/ Rejected(r)
    \/ BeginCreatePlot(r)
    \/ CountPlot(r)
    \/ InsertPlot(r)
    \/ BeginUpdatePlot(r)
    \/ BeginDeletePlot(r)
    \/ SelectPlot(r)
    \/ UpdatePlot(r)
    \/ SoftDelete(r)
    \/ BeginCreateDeceased(r)
    \/ InsertDeceased(r)
    \/ BeginUpdateDeceased(r)
    \/ UpdateDeceased(r)
    \/ Audit(r)
    \/ AuditThrows(r)
    \/ Lookup(r)
    \/ MailSettles(r)
    \/ QueryThrows(r)
    \/ BeginListPlots(r)
    \/ ListQuery(r)

Spec == Init /\ [][Next]_vars

\* The plot routes alone, every query answered.
NextPlots ==
  \E r \in Reqs :
    \/ BeginCreatePlot(r)
    \/ CountPlot(r)
    \/ InsertPlot(r)
    \/ BeginUpdatePlot(r)
    \/ BeginDeletePlot(r)
    \/ SelectPlot(r)
    \/ UpdatePlot(r)
    \/ SoftDelete(r)
    \/ Audit(r)
    \/ Lookup(r)
    \/ BeginListPlots(r)
    \/ ListQuery(r)

SpecPlots == InitPlots /\ [][NextPlots]_vars

\* Update-plot alone, on a stored plot, every query answered.
NextUpdate ==
  \E r \in {"r1"} :
    \/ BeginUpdatePlot(r)
    \/ SelectPlot(r)
    \/ UpdatePlot(r)
    \/ Audit(r)

SpecUpdate == InitUpdate /\ [][NextUpdate]_vars

\* Create-plot alone, with the audit fault and the notifier.  Every query
\* the database is asked is answered; the SMTP server may never answer, so
\* nothing obliges MailSettles to happen.
NextCreate ==
  \E r \in Reqs :
    \/ BeginCreatePlot(r)
    \/ CountPlot(r)
    \/ InsertPlot(r)
    \/ Audit(r)
    \/ AuditThrows(r)
    \/ Lookup(r)
    \/ MailSettles(r)

FairCreate ==
  \A r \in Reqs :
    /\ WF_vars(CountPlot(r))
    /\ WF_vars(InsertPlot(r))
    /\ WF_vars(Audit(r))
    /\ WF_vars(Lookup(r))

SpecCreate == InitCreate /\ [][NextCreate]_vars /\ FairCreate

\* The deceased-record routes alone, on a stored plot, every query answered.
NextDeceased ==
  \E r \in Reqs :
    \/ BeginCreateDeceased(r)
    \/ InsertDeceased(r)
    \/ BeginUpdateDeceased(r)
    \/ UpdateDeceased(r)
    \/ Audit(r)

SpecDeceased == InitDeceased /\ [][NextDeceased]_vars

(***************************************************************************)
(* Properties.                                                             *)
(***************************************************************************)
Done(r) == pc[r] = "done"
Mutating(r) == req[r].op \in MutatingOps
Succeeded(r) == Done(r) /\ Mutating(r) /\ resp[r].status \in {200, 201}

\* The action tag of each mutating route, as the specification lists them
TagOf(op) ==
  CASE op = "createPlot" -> "CREATE_PLOT"
    [] op = "updatePlot" -> "UPDATE_PLOT"
    [] op = "deletePlot" -> "DELETE_PLOT"
    [] op = "createDeceased" -> "CREATE_DECEASED"
    [] op = "updateDeceased" -> "UPDATE_DECEASED"

\* The id of the row a mutating request wrote
MutatedId(r) == IF req[r].op = "deletePlot" THEN req[r].p.id ELSE loc[r].row.id

\* C1: when the primary write of a mutating request succeeded and its audit
\* insert failed, the response is the one the route gives after a successful
\* audit insert: the success status with the written row (or {ok: true}),
\* or, for create-plot, the 500 of a failed cemetery-name lookup.
C1_AuditFailureLeavesResponse ==
  \A r \in Reqs :
    (Done(r) /\ Mutating(r) /\ hist[r].audit = "failed") =>
      /\ hist[r].wrote # {}
      /\ resp[r] = IF hist[r].threw = "lookup" THEN Failure(req[r].op)
                   ELSE Success(req[r].op, loc[r].row)

C1_Witness ==
  \E r \in Reqs :
    /\ Succeeded(r)
    /\ hist[r].audit = "failed"
    /\ req[r].op = "updateDeceased"

\* C2 as claimed: every mutating request answered with success has added
\* exactly one audit entry, with the action tag and entity id of what it changed.
C2_Original ==
  \A r \in Reqs :
    Succeeded(r) =>
      /\ Cardinality(hist[r].entries) = 1
      /\ \A i \in hist[r].entries :
           /\ audit_logs[i].action = TagOf(req[r].op)
           /\ audit_logs[i].entity_id = MutatedId(r)

\* C2 as amended: every mutating request answered with success has added
\* exactly one audit entry with the matching action tag and entity id when its
\* audit insert succeeded, and none when the audit insert failed; the request
\* never adds more than one, with the notification channel configured or not.
C2_OneAuditEntryUnlessInsertFailed ==
  \A r \in Reqs :
    Succeeded(r) =>
      /\ hist[r].audit \in {"ok", "failed"}
      /\ Cardinality(hist[r].entries) = (IF hist[r].audit = "ok" THEN 1 ELSE 0)
      /\ \A i \in hist[r].entries :
           /\ i \in 1..Len(audit_logs)
           /\ audit_logs[i].action = TagOf(req[r].op)
           /\ audit_logs[i].entity_id = MutatedId(r)

C2_Witness ==
  \E r \in Reqs :
    /\ Succeeded(r)
    /\ req[r].op = "createDeceased"
    /\ ~emailEnabled
    /\ hist[r].audit = "ok"
    /\ Cardinality(hist[r].entries) = 1

\* C6 as claimed: a mutating request answered with an error (400, 404, 500)
\* has inserted or changed no plot and no deceased row.
C6_ErrorMeansNoWrite ==
  \A r \in Reqs :
    (Done(r) /\ Mutating(r) /\ resp[r].status \in {400, 404, 500}) => hist[r].wrote = {}

\* A header carries a valid, unexpired token whose permission is "full".
CarriesFullToken(h) ==
  /\ Len(h) >= 2
  /\ h[2].signed
  /\ ~h[2].expired
  /\ h[2].payload.permission = "full"

\* A header carries a valid, unexpired token.
CarriesValidToken(h) == Len(h) >= 2 /\ h[2].signed /\ ~h[2].expired

\* C7: a request to a mutating route that carries no valid, unexpired token
\* with permission "full" is answered at once, 401 without a valid token and
\* 403 with a valid token of another permission, and writes no plot, deceased
\* or audit row and sends no mail.
C7_MutationNeedsFullToken ==
  \A r \in Reqs :
    (pc[r] # "idle" /\ Mutating(r) /\ ~CarriesFullToken(req[r].header)) =>
      /\ Done(r)
      /\ resp[r].status = (IF CarriesValidToken(req[r].header) THEN 403 ELSE 401)
      /\ hist[r] = NoHist

C7_Witness ==
  /\ plots # <<>>
  /\ \E r \in Reqs :
       /\ Done(r) /\ req[r].op = "deletePlot" /\ resp[r].status = 403
  /\ \E r \in Reqs :
       /\ Done(r) /\ Mutating(r) /\ resp[r].status = 401

\* C10 as claimed: update-deceased stores null for a field sent as the empty
\* string, leaves an omitted field as it was, and answers 404 for an id with
\* no row.
C10_EmptyStringSetsNull ==
  [][\A r \in Reqs :
       (pc[r] = "updateDeceased" /\ pc'[r] # "updateDeceased" /\ hist'[r].threw = "") =>
         LET id == req[r].p.id
             b == req[r].p.body
         IN IF id \in DeceasedIds
            THEN \A f \in DeceasedFields :
                   /\ b[f] = Str(<<>>) => deceased_records'[id].f[f] = NULL
                   /\ b[f] = UNDEF => deceased_records'[id].f[f] = deceased_records[id].f[f]
            ELSE /\ resp'[r].status = 404
                 /\ deceased_records' = deceased_records]_vars

\* The non-deleted plots of a cemetery
LivePlots(c) == {i \in PlotIds : plots[i].cemetery_id = c /\ plots[i].deleted_at = NULL}

\* The soft-deleted plots of a cemetery
DeletedPlots(c) == {i \in PlotIds : plots[i].cemetery_id = c /\ plots[i].deleted_at # NULL}

\* The cemetery a create-plot request names
CemeteryOf(r) == req[r].p.body.cemetery_id.num

\* C3: when the count query of a create-plot request is answered while the
\* cemetery holds exactly PLOTS_PER_CEMETERY_LIMIT non-deleted plots, the
\* request is answered 400 with the plot-limit message and inserts no row;
\* with fewer non-deleted plots it goes on to its insert, however many
\* soft-deleted plots the cemetery holds.
C3_FullCemeteryRejectsCreate ==
  [][\A r \in Reqs :
       (pc[r] = "count" /\ pc'[r] # "count" /\ hist'[r].threw = "") =>
         LET live == Cardinality(LivePlots(CemeteryOf(r)))
         IN /\ live = PLOTS_PER_CEMETERY_LIMIT =>
                 /\ pc'[r] = "done"
                 /\ resp'[r] = [status |-> 400, body |-> [error |-> "Plot limit reached"]]
                 /\ plots' = plots
                 /\ hist'[r].wrote = {}
            /\ live < PLOTS_PER_CEMETERY_LIMIT => pc'[r] = "insert"]_vars

C3_Witness ==
  \E r \in Reqs :
    /\ Done(r)
    /\ req[r].op = "createPlot"
    /\ resp[r] = [status |-> 400, body |-> [error |-> "Plot limit reached"]]
    /\ loc[r].n = Num(PLOTS_PER_CEMETERY_LIMIT)
    /\ DeletedPlots(CemeteryOf(r)) # {}
    /\ Cardinality(LivePlots(CemeteryOf(r))) = PLOTS_PER_CEMETERY_LIMIT

\* C4 as claimed: every cemetery holds at most PLOTS_PER_CEMETERY_LIMIT
\* non-deleted plots in every reachable state.
C4_AtMostLimit ==
  \A c \in Cemeteries : Cardinality(LivePlots(c)) <= PLOTS_PER_CEMETERY_LIMIT

\* The create-plot requests for a cemetery that passed the count check and
\* have not inserted yet
PassedCheck(c) ==
  {r \in Reqs : req[r].op = "createPlot" /\ pc[r] = "insert" /\ CemeteryOf(r) = c}

\* C4 as amended: with k requests served at once, every cemetery holds at
\* most PLOTS_PER_CEMETERY_LIMIT - 1 + k non-deleted plots, the create-plot
\* requests that passed the count check and have yet to insert counted in.
C4_AtMostLimitPlusOverlap ==
  \A c \in Cemeteries :
    Cardinality(LivePlots(c)) + Cardinality(PassedCheck(c))
      <= PLOTS_PER_CEMETERY_LIMIT - 1 + Cardinality(Reqs)

C4_Witness ==
  \E c \in Cemeteries :
    /\ Cardinality(LivePlots(c)) = PLOTS_PER_CEMETERY_LIMIT - 1 + Cardinality(Reqs)
    /\ DeletedPlots(c) # {}

\* C5: with two requests in flight, no cemetery ever holds more than
\* PLOTS_PER_CEMETERY_LIMIT + 1 non-deleted plots.
C5_TwoInFlightExceedByOne ==
  \A c \in Cemeteries : Cardinality(LivePlots(c)) <= PLOTS_PER_CEMETERY_LIMIT + 1

\* Both requests in flight are create-plot requests for one cemetery, both
\* counted PLOTS_PER_CEMETERY_LIMIT - 1 plots, both inserted.
C5_Witness ==
  \E c \in Cemeteries :
    /\ Cardinality(LivePlots(c)) = PLOTS_PER_CEMETERY_LIMIT + 1
    /\ \A r \in Reqs :
         /\ req[r].op = "createPlot"
         /\ pc[r] = "audit"
         /\ CemeteryOf(r) = c
         /\ loc[r].n = Num(PLOTS_PER_CEMETERY_LIMIT - 1)
         /\ hist[r].wrote # {}

\* C8 as claimed: a soft-deleted plot is absent from the default listing of
\* its cemetery and is listed exactly once with include_deleted=true.
C8_DeletedListedOnlyWithFlag ==
  \A i \in PlotIds :
    plots[i].deleted_at # NULL =>
      LET c == plots[i].cemetery_id
          rows == RowsInOrder(ListPlots(c, TRUE))
      IN /\ i \notin ListPlots(c, FALSE)
         /\ Cardinality({k \in DOMAIN rows : rows[k].id = i}) = 1

\* C9: the UPDATE of update-plot leaves every field that the request omits
\* or supplies as null at its value before the update, changes neither id,
\* cemetery_id, plot_code nor deleted_at, touches no other row, and applying
\* the same request again to the updated row changes nothing.
C9_UpdateKeepsOmittedFields ==
  [][\A r \in Reqs :
       (pc[r] = "update" /\ pc'[r] = "audit") =>
         LET id == req[r].p.id
             b == req[r].p.body
         IN /\ \A f \in PlotFields :
                 b[f] \in {UNDEF, NULL} => plots'[id][f] = plots[id][f]
            /\ \A c \in {"id", "cemetery_id", "plot_code", "deleted_at"} :
                 plots'[id][c] = plots[id][c]
            /\ Len(plots') = Len(plots)
            /\ \A j \in PlotIds \ {id} : plots'[j] = plots[j]
            /\ UpdatePlotRow(plots'[id], b) = plots'[id]]_vars

\* An update that supplied a status and omitted the gender was answered.
C9_Witness ==
  \E r \in Reqs :
    /\ Done(r)
    /\ req[r].op = "updatePlot"
    /\ resp[r].status = 200
    /\ req[r].p.body.status = Reserved
    /\ req[r].p.body.gender = UNDEF
    /\ req[r].p.body.owner_name = NULL
    /\ resp[r].body.status = Reserved
    /\ loc[r].before.status # Reserved
    /\ resp[r].body.gender = loc[r].before.gender
    /\ resp[r].body.gender # NULL

\* C11 as claimed: a create-plot request whose cemetery id is missing or
\* whose plot code is empty after trimming is answered 400 at once and writes
\* no row, and no stored plot has an empty plot_code.
C11_BlankCodeRejected ==
  /\ \A r \in Reqs :
       LET b == req[r].p.body
       IN (req[r].op = "createPlot" /\ pc[r] # "idle"
             /\ (~Truthy(b.cemetery_id) \/ Trim(StringOf(b.plot_code)) = <<>>)) =>
            /\ Done(r)
            /\ resp[r].status = 400
            /\ hist[r].wrote = {}
  /\ \A i \in PlotIds : plots[i].plot_code # Str(<<>>)

\* C12 as claimed: a mutating request answered with success has attempted
\* one notification send when the channel is configured and none when it is
\* not.
C12_OneSendWhenConfigured ==
  \A r \in Reqs :
    Succeeded(r) =>
      IF emailEnabled THEN hist[r].mail \in {"ok", "failed"} ELSE hist[r].mail = "none"

\* The awaits of the primary persistence phase
PrimaryAwaits ==
  {"count", "insert", "select", "update", "softdel", "insertDeceased", "updateDeceased"}

\* C14: in a mutating request the audit write is in flight or attempted only
\* after the primary write was made, the notification (the cemetery-name
\* lookup that composes it included) only after the audit write was
\* attempted, and a request whose primary phase threw wrote no row, no audit
\* entry and sent no mail.
C14_PhasesInOrder ==
  \A r \in Reqs :
    Mutating(r) =>
      /\ (pc[r] = "audit" \/ hist[r].audit # "none") => hist[r].wrote # {}
      /\ (pc[r] \in {"lookup", "mailing"} \/ hist[r].mail # "none") =>
            hist[r].audit \in {"ok", "failed"}
      /\ hist[r].threw \in PrimaryAwaits =>
            /\ hist[r].wrote = {}
            /\ hist[r].audit = "none"
            /\ hist[r].entries = {}
            /\ hist[r].mail = "none"

\* A soft-delete whose audit insert failed sent its mail and answered, and
\* another request's primary write threw.
C14_Witness ==
  /\ \E r \in Reqs :
       /\ Done(r) /\ req[r].op = "deletePlot"
       /\ hist[r].audit = "failed" /\ hist[r].mail = "ok"
  /\ \E r \in Reqs :
       /\ Done(r) /\ Mutating(r) /\ hist[r].threw \in PrimaryAwaits

\* The statuses with which a mutating request is refused before its write
RejectionStatuses == {400, 401, 403, 404}

\* C18: the step in which a mutating request is answered 401, 403, 400 or
\* 404 leaves audit_logs and the outbox as they were, and the request has
\* written no row, added no audit entry and attempted no mail.
C18_RejectionLeavesLogAndOutbox ==
  [][\A r \in Reqs :
       (/\ pc'[r] = "done"
        /\ pc[r] # "done" \/ started' # started
        /\ req'[r].op \in MutatingOps
        /\ resp'[r].status \in RejectionStatuses) =>
         /\ audit_logs' = audit_logs
         /\ outbox' = outbox
         /\ hist'[r] = NoHist]_vars

\* With an entry in audit_logs, one request was refused for capacity and
\* another for a plot that does not exist.
C18_Witness ==
  /\ audit_logs # <<>>
  /\ \E r \in Reqs :
       /\ Done(r) /\ req[r].op = "createPlot" /\ resp[r].status = 400
       /\ loc[r].n = Num(PLOTS_PER_CEMETERY_LIMIT)
  /\ \E r \in Reqs :
       /\ Done(r) /\ req[r].op = "deletePlot" /\ resp[r].status = 404

\* C13 as claimed: once the primary write of a mutating request is made the
\* response is eventually sent, also when the notification send never
\* completes, and it is the success response whether the send succeeded or
\* failed.
C13_ResponseDespiteNotification ==
  /\ \A r \in Reqs : (hist[r].wrote # {}) ~> Done(r)
  /\ [](\A r \in Reqs :
          (Done(r) /\ hist[r].mail \in {"ok", "failed"}) =>
            resp[r] = Success(req[r].op, loc[r].row))

\* C15 as claimed: the UPDATE of update-plot changes no field of a plot that
\* is soft-deleted when the UPDATE is applied, and the request is answered 404.
C15_UpdateSparesDeletedPlot ==
  [][\A r \in Reqs :
       (pc[r] = "update" /\ pc'[r] # "update" /\ plots[req[r].p.id].deleted_at # NULL) =>
         /\ plots' = plots
         /\ resp'[r].status = 404]_vars

\* The DELETE_PLOT entries audit_logs holds for a plot
DeleteEntries(i) ==
  {k \in 1..Len(audit_logs) :
     audit_logs[k].action = "DELETE_PLOT" /\ audit_logs[k].entity_id = i}

\* C16 as claimed: for every plot at most one DELETE_PLOT entry is written,
\* a soft-delete that finds the plot deleted when its UPDATE is applied is
\* answered 404, the deletion timestamp once set never changes, and no row of
\* plots or deceased_records is removed.
C16_AtMostOneDeleteSucceeds ==
  /\ [](\A i \in PlotIds : Cardinality(DeleteEntries(i)) <= 1)
  /\ [][/\ \A i \in PlotIds : plots[i].deleted_at # NULL =>
               /\ i \in 1..Len(plots')
               /\ plots'[i].deleted_at = plots[i].deleted_at
         /\ Len(plots') >= Len(plots)
         /\ Len(deceased_records') >= Len(deceased_records)]_vars

\* C17 as claimed: every stored deceased record has a full name of trimmed
\* length at least 2 and an uppercase burial type.
C17_DeceasedRecordsValid ==
  \A i \in DeceasedIds :
    LET f == deceased_records[i].f
    IN /\ Len(Trim(StringOf(f.deceased_full_name))) >= 2
       /\ f.burial_type = Str(ToUpperCase(StringOf(f.burial_type)))

====
